---- MODULE Spec2Model ----
(***************************************************************************)
(* State-machine model of pointcloud_to_laserscan's CloudToScan nodelet    *)
(* (src/src/cloud_to_scan.cpp).                                            *)
(*                                                                         *)
(* Numbers.  Lengths are whole metres and angles are whole multiples of    *)
(* 15 degrees (Pi == 12), so that every quantity the code computes is an   *)
(* integer or the square root of one.  A non-negative range r is held as   *)
(* r*r (fields named ..._sq): sqrt() of the code is then exact, and the    *)
(* comparison ranges[i]*ranges[i] > range_sq is a comparison of two        *)
(* integers.  Rounding of float/double is not modelled.  A zero coordinate *)
(* stands for +0.0.                                                        *)
(***************************************************************************)
EXTENDS Integers, Sequences, FiniteSets, TLC

\* pi, in angle units (one unit is 15 degrees)
Pi == 12
\* the 1.0 added to range_max for the "no return" value, in metres
SentinelOffset == 1

\* longest point cloud delivered
MaxCloudLen == 2
\* number of input frames delivered
MaxFrames == 2
\* when handlers run on two threads: number of reconfigure() calls
MaxReconfigures == 1
\* consumers of "scan" at one time, and their arrivals and departures
MaxConsumers == 2
MaxEvents == 3

(***************************************************************************)
(* float / tfScalar values: a number or NaN                                *)
(***************************************************************************)
NaN == [nan |-> TRUE, v |-> 0]
Num(n) == [nan |-> FALSE, v |-> n]
isnan(a) == a.nan
FAdd(a, b) == IF a.nan \/ b.nan THEN NaN ELSE Num(a.v + b.v)
FMul(a, b) == IF a.nan \/ b.nan THEN NaN ELSE Num(a.v * b.v)

(***************************************************************************)
(* tf::Vector3, tf::Matrix3x3, tf::Transform over integers                 *)
(***************************************************************************)
Dot(a, b) == a[1] * b[1] + a[2] * b[2] + a[3] * b[3]
Col(m, j) == <<m[1][j], m[2][j], m[3][j]>>
MatVec(m, v) == <<Dot(m[1], v), Dot(m[2], v), Dot(m[3], v)>>
Transposed(m) == <<Col(m, 1), Col(m, 2), Col(m, 3)>>
MatRow(a, b, i) == <<Dot(a[i], Col(b, 1)), Dot(a[i], Col(b, 2)), Dot(a[i], Col(b, 3))>>
MatMul(a, b) == <<MatRow(a, b, 1), MatRow(a, b, 2), MatRow(a, b, 3)>>
VAdd(a, b) == <<a[1] + b[1], a[2] + b[2], a[3] + b[3]>>
VNeg(a) == <<-a[1], -a[2], -a[3]>>

\* tf::Transform::inverse()
Inverse(t) ==
  [basis |-> Transposed(t.basis),
   origin |-> MatVec(Transposed(t.basis), VNeg(t.origin))]

\* tf::Transform::mult(t1, t2): the transform "t2, then t1"
Mult(t1, t2) ==
  [basis |-> MatMul(t1.basis, t2.basis),
   origin |-> VAdd(MatVec(t1.basis, t2.origin), t1.origin)]

\* tf::Transform::operator()(p) on a point whose coordinates may be NaN
FDot(row, p) ==
  FAdd(FAdd(FMul(Num(row[1]), p[1]), FMul(Num(row[2]), p[2])), FMul(Num(row[3]), p[3]))
Apply(t, p) ==
  <<FAdd(FDot(t.basis[1], p), Num(t.origin[1])),
    FAdd(FDot(t.basis[2], p), Num(t.origin[2])),
    FAdd(FDot(t.basis[3], p), Num(t.origin[3]))>>

\* atan2(y, x) on the eight compass directions and the origin
Atan2(y, x) ==
  CASE y = 0 /\ x >= 0 -> 0
    [] y = 0 /\ x < 0 -> Pi
    [] x = 0 /\ y > 0 -> Pi \div 2
    [] x = 0 /\ y < 0 -> -(Pi \div 2)
    [] x = y /\ x > 0 -> Pi \div 4
    [] x = y /\ x < 0 -> -(3 * (Pi \div 4))
    [] x = -y /\ x > 0 -> -(Pi \div 4)
    [] x = -y /\ x < 0 -> 3 * (Pi \div 4)

\* cos and sin of a multiple of pi/2
Cos(a) == CASE a = 0 -> 1 [] a = Pi \/ a = -Pi -> -1 [] OTHER -> 0
Sin(a) == CASE a = Pi \div 2 -> 1 [] a = -(Pi \div 2) -> -1 [] OTHER -> 0

\* tf::Quaternion(tf::Vector3(0,0,1), alpha) as a rotation matrix
YawRotation(alpha) ==
  <<<<Cos(alpha), -Sin(alpha), 0>>, <<Sin(alpha), Cos(alpha), 0>>, <<0, 0, 1>>>>

(***************************************************************************)
(* Inputs                                                                  *)
(***************************************************************************)
\* Frame identifiers (lines 58-59)
output_frame_id_ == "/kinect_depth_frame"
ref_frame_id_ == "/kinect_link"
CloudFrameId == "/kinect_optical_frame"

\* Whole configurations offered by the parameter server and by dynamic
\* reconfigure.  Every field is inside its own range (angle_increment > 0,
\* ranges >= 0, angle_max >= angle_min); the last one violates the
\* cross-field requirements angle_max > angle_min and range_max > range_min.
Configs ==
  { [min_height |-> 0, max_height |-> 2, angle_min |-> -3, angle_max |-> 0,
     angle_increment |-> 3, scan_time |-> 1, range_min |-> 2, range_max |-> 3],
    [min_height |-> 0, max_height |-> 1, angle_min |-> -6, angle_max |-> 6,
     angle_increment |-> 3, scan_time |-> 1, range_min |-> 1, range_max |-> 3],
    [min_height |-> 0, max_height |-> 1, angle_min |-> -6, angle_max |-> 6,
     angle_increment |-> 5, scan_time |-> 1, range_min |-> 0, range_max |-> 1],
    [min_height |-> 0, max_height |-> 1, angle_min |-> 0, angle_max |-> 0,
     angle_increment |-> 3, scan_time |-> 2, range_min |-> 2, range_max |-> 1] }

\* The configuration found on the parameter server by onInit()
StartConfig ==
  [min_height |-> 0, max_height |-> 1, angle_min |-> -6, angle_max |-> 6,
   angle_increment |-> 5, scan_time |-> 1, range_min |-> 0, range_max |-> 1]

Identity3 == <<<<1, 0, 0>>, <<0, 1, 0>>, <<0, 0, 1>>>>
\* Answers of the transform listener: a camera mounted level one metre up,
\* and a camera in optical orientation (z forward along the reference y axis).
Transforms ==
  { [basis |-> Identity3, origin |-> <<1, 0, 1>>],
    [basis |-> <<<<1, 0, 0>>, <<0, 0, 1>>, <<0, -1, 0>>>>, origin |-> <<0, 1, 1>>] }

\* Points of the input clouds, in the cloud's frame
P3(x, y, z) == <<Num(x), Num(y), Num(z)>>
Points ==
  { P3(1, 0, 0), P3(1, 1, 0), P3(1, 0, 1), P3(3, 0, 0), P3(2, 0, 2),
    <<NaN, Num(0), Num(0)>> }

SeqsUpTo(S, n) == UNION { [1..k -> S] : k \in 0..n }
Clouds == SeqsUpTo(Points, MaxCloudLen)

(***************************************************************************)
(* callback(): the virtual laser frame (lines 168-195)                     *)
(***************************************************************************)
\* lines 176-180: yaw of the camera's z axis in the reference frame
RefOrientation(cloud_to_ref) ==
  LET rotated_z_axis == MatVec(cloud_to_ref.basis, <<0, 0, 1>>)
      alpha == Atan2(rotated_z_axis[2], rotated_z_axis[1])
  IN  YawRotation(alpha)

\* lines 171-189: the transform handed to the broadcaster.  Its height
\* (min_height_ + max_height_) * 0.5 is kept doubled.
RefToOutBroadcast(cloud_to_ref, min_height, max_height, stamp) ==
  [frame_id |-> ref_frame_id_, child_frame_id |-> output_frame_id_,
   stamp |-> stamp,
   origin_xy |-> <<cloud_to_ref.origin[1], cloud_to_ref.origin[2]>>,
   origin_z_doubled |-> min_height + max_height,
   basis |-> RefOrientation(cloud_to_ref)]

\* lines 191-195: cloud frame into the output frame at zero height
CloudToOut(cloud_to_ref) ==
  LET ref_to_out == [basis |-> RefOrientation(cloud_to_ref),
                     origin |-> <<cloud_to_ref.origin[1], cloud_to_ref.origin[2], 0>>]
  IN  Mult(Inverse(ref_to_out), cloud_to_ref)

(***************************************************************************)
(* callback(): the scan and the point loop (lines 144-156, 197-234)        *)
(***************************************************************************)
\* double -> int / uint32_t conversions truncate towards zero
TruncDiv(a, b) == IF a >= 0 THEN a \div b ELSE -((-a) \div b)
CeilDiv(a, b) == -((-a) \div b)

\* line 155
RangesSize(angle_min, angle_max, angle_increment) ==
  CeilDiv(angle_max - angle_min, angle_increment)

\* (variant: the array starts zeroed)
InitialRangeSq_Zeroed(range_max) == 0
\* line 156: the value every bin starts with, squared
InitialRangeSq(range_max) == (range_max + SentinelOffset) * (range_max + SentinelOffset)

\* lines 144-156
NewScan(stamp, angle_min, angle_max, angle_increment, scan_time, range_min, range_max) ==
  [stamp |-> stamp, frame_id |-> output_frame_id_,
   angle_min |-> angle_min, angle_max |-> angle_max,
   angle_increment |-> angle_increment, time_increment |-> 0,
   scan_time |-> scan_time, range_min |-> range_min, range_max |-> range_max,
   ranges_sq |-> [i \in 1..RangesSize(angle_min, angle_max, angle_increment)
                    |-> InitialRangeSq(range_max)]]

\* line 206
NanRejected(p) == isnan(p[1]) \/ isnan(p[2]) \/ isnan(p[3])
\* (variant: no height filter)
HeightRejected_Never(z, min_height, max_height) == FALSE
\* line 212
HeightRejected(z, min_height, max_height) == z > max_height \/ z < min_height
\* lines 218-219
RangeSq(x, y) == y * y + x * x
\* (variant: no minimum-range filter)
RangeRejected_Never(range_sq, range_min_sq) == FALSE
RangeRejected(range_sq, range_min_sq) == range_sq < range_min_sq
\* line 224: -atan2(-y, x); for y = +0.0 the argument is -0.0, and
\* atan2(-0.0, x) is -0.0 for x >= 0 and -pi for x < 0
Angle(x, y) == IF y = 0 THEN (IF x < 0 THEN Pi ELSE 0) ELSE -Atan2(-y, x)
\* line 225
AngleRejected(angle, angle_min, angle_max) == angle < angle_min \/ angle > angle_max
\* line 230
Index(angle, angle_min, angle_increment) == TruncDiv(angle - angle_min, angle_increment)
\* (variant: every accepted point overwrites its bin)
Closer_Always(stored_sq, range_sq) == TRUE
\* line 232
Closer(stored_sq, range_sq) == stored_sq > range_sq

\* One turn of the loop (lines 199-233) on the transformed point p.  acc is
\* the range array so far and whether an access fell outside it; an access
\* outside the array touches memory that is not part of the scan.
ProcessPoint(acc, p, min_height, max_height, range_min_sq, angle_min, angle_max, angle_increment) ==
  IF NanRejected(p) THEN acc
  ELSE IF HeightRejected(p[3].v, min_height, max_height) THEN acc
  ELSE IF RangeRejected(RangeSq(p[1].v, p[2].v), range_min_sq) THEN acc
  ELSE IF AngleRejected(Angle(p[1].v, p[2].v), angle_min, angle_max) THEN acc
  ELSE LET index == Index(Angle(p[1].v, p[2].v), angle_min, angle_increment)
           range_sq == RangeSq(p[1].v, p[2].v)
       IN  IF index < 0 \/ index >= Len(acc.ranges_sq)
             THEN [acc EXCEPT !.out_of_bounds = TRUE]
           ELSE IF Closer(acc.ranges_sq[index + 1], range_sq)
             THEN [acc EXCEPT !.ranges_sq[index + 1] = range_sq]
           ELSE acc

\* lines 197-234 under one set of parameters
RECURSIVE PointLoop(_, _, _, _, _, _, _, _, _, _)
PointLoop(acc, points, it, cloud_to_out, min_height, max_height, range_min_sq, angle_min, angle_max, angle_increment) ==
  IF it > Len(points) THEN acc
  ELSE PointLoop(
         ProcessPoint(acc, Apply(cloud_to_out, points[it]), min_height, max_height,
                      range_min_sq, angle_min, angle_max, angle_increment),
         points, it + 1, cloud_to_out, min_height, max_height, range_min_sq,
         angle_min, angle_max, angle_increment)

(***************************************************************************)
(* State                                                                   *)
(***************************************************************************)
VARIABLES
  \* members of CloudToScan (line 240)
  min_height_, max_height_, angle_min_, angle_max_, angle_increment_,
  scan_time_, range_min_, range_max_, range_min_sq_,
  \* sub_ (line 245): "active" (subscribed to "cloud") or "shutdown", and
  \* the number of subscriptions to "cloud" the node holds
  sub_, subscriptions,
  \* pub_.getNumSubscribers(), the connect and disconnect notifications not
  \* yet picked up, and the number of arrivals and departures so far
  numSubscribers, pendingConnect, pendingDisconnect, events,
  \* connect_mutex_ (line 71): "free" or the thread that holds it, and the
  \* place of each worker thread in connectCB() or disconnectCB()
  connect_mutex_, thr,
  \* the process has died
  crashed,
  \* number of frames the input feed has delivered and, for each, whether
  \* the transform listener resolved its transform
  stamp, feed,
  \* position of the worker in callback(): "idle", or "published" at line
  \* 237 with the locals below still alive
  cb_pc,
  \* argument and locals of the running callback: the frame, cloud_to_ref
  \* and whether the lookup filled it, the scan, and whether ranges was
  \* accessed outside its bounds
  cloud, cloud_to_ref, resolved, output, out_of_bounds,
  \* the transform last handed to the broadcaster
  broadcast,
  \* stamps of the scans handed to pub_, in order
  sink,
  \* when handlers run on two threads: the loop iterator of callback(), the
  \* parameters each turn of its loop read, the next line of the running
  \* reconfigure() (0: none is running), its argument, and the number of
  \* calls so far
  it, reads, rc_pc, rc_config, reconfigures

paramVars ==
  <<min_height_, max_height_, angle_min_, angle_max_, angle_increment_,
    scan_time_, range_min_, range_max_, range_min_sq_>>
localVars == <<cloud, cloud_to_ref, resolved, output, out_of_bounds>>
stepVars == <<it, reads, rc_pc, rc_config, reconfigures>>
lazyVars ==
  <<sub_, subscriptions, numSubscribers, pendingConnect, pendingDisconnect, events,
    connect_mutex_, thr>>
vars ==
  <<paramVars, lazyVars, crashed, stamp, feed, cb_pc, localVars, broadcast, sink, stepVars>>

NoTransform == [basis |-> Identity3, origin |-> <<0, 0, 0>>]
NoCloud == [stamp |-> 0, frame_id |-> CloudFrameId, points |-> <<>>]
NoScan == NewScan(0, 0, 0, 1, 0, 0, 0)
NoBroadcast == RefToOutBroadcast(NoTransform, 0, 0, 0)

\* lines 50-59, 83-93: the members after onInit() has read the parameters
InitParams ==
  /\ min_height_ = StartConfig.min_height
  /\ max_height_ = StartConfig.max_height
  /\ angle_min_ = StartConfig.angle_min
  /\ angle_max_ = StartConfig.angle_max
  /\ angle_increment_ = StartConfig.angle_increment
  /\ scan_time_ = StartConfig.scan_time
  /\ range_min_ = StartConfig.range_min
  /\ range_max_ = StartConfig.range_max
  /\ range_min_sq_ = StartConfig.range_min * StartConfig.range_min

NoLocals ==
  /\ cloud = NoCloud
  /\ cloud_to_ref = NoTransform
  /\ resolved = FALSE
  /\ output = NoScan
  /\ out_of_bounds = FALSE

InitPass ==
  /\ stamp = 0
  /\ feed = <<>>
  /\ cb_pc = "idle"
  /\ NoLocals
  /\ broadcast = NoBroadcast
  /\ sink = <<>>
  /\ it = 0
  /\ reads = <<>>
  /\ rc_pc = 0
  /\ rc_config = StartConfig
  /\ reconfigures = 0

Workers == {"w1", "w2"}

\* lines 102-109: "scan" is advertised, nothing is subscribed
InitLazy ==
  /\ sub_ = "shutdown"
  /\ subscriptions = 0
  /\ numSubscribers = 0
  /\ pendingConnect = 0
  /\ pendingDisconnect = 0
  /\ events = 0
  /\ connect_mutex_ = "free"
  /\ thr = [w \in Workers |-> "idle"]

\* a first consumer has arrived and connectCB() has subscribed to "cloud"
Serving ==
  /\ sub_ = "active"
  /\ subscriptions = 1
  /\ numSubscribers = 1
  /\ pendingConnect = 0
  /\ pendingDisconnect = 0
  /\ events = 1
  /\ connect_mutex_ = "free"
  /\ thr = [w \in Workers |-> "idle"]

\* The nodelet once a first consumer of "scan" has made connectCB()
\* subscribe to "cloud": from here on frames are delivered.
Init ==
  /\ InitParams
  /\ InitPass
  /\ Serving
  /\ crashed = FALSE

(***************************************************************************)
(* Handlers, each run to completion (the queue of getNodeHandle() runs one *)
(* callback of the nodelet at a time)                                      *)
(***************************************************************************)
\* reconfigure(), lines 128-140
Reconfigure(config) ==
  /\ ~crashed
  /\ cb_pc = "idle"
  /\ min_height_' = config.min_height
  /\ max_height_' = config.max_height
  /\ angle_min_' = config.angle_min
  /\ angle_max_' = config.angle_max
  /\ angle_increment_' = config.angle_increment
  /\ scan_time_' = config.scan_time
  /\ range_min_' = config.range_min
  /\ range_max_' = config.range_max
  /\ range_min_sq_' = config.range_min * config.range_min
  /\ UNCHANGED <<lazyVars, crashed, stamp, feed, cb_pc, localVars, broadcast, sink, stepVars>>

\* lines 144-156 and 197-234 of one pass over `points`
BuildScan(points, tf) ==
  PointLoop([ranges_sq |-> [i \in 1..RangesSize(angle_min_, angle_max_, angle_increment_)
                              |-> InitialRangeSq(range_max_)],
             out_of_bounds |-> FALSE],
            points, 1, CloudToOut(tf), min_height_, max_height_, range_min_sq_,
            angle_min_, angle_max_, angle_increment_)

\* callback(), lines 142-236, on the frame `points` when cloud_to_ref holds
\* tf after the try block.  An access outside ranges is undefined: the pass
\* either goes on to publish or takes the process down.
Callback(points, tf, ok) ==
  /\ ~crashed
  /\ cb_pc = "idle"
  /\ sub_ = "active"
  /\ stamp < MaxFrames
  /\ stamp' = stamp + 1
  /\ feed' = Append(feed, ok)
  /\ cloud' = [stamp |-> stamp + 1, frame_id |-> CloudFrameId, points |-> points]
  /\ cloud_to_ref' = tf
  /\ resolved' = ok
  /\ broadcast' = RefToOutBroadcast(tf, min_height_, max_height_, stamp + 1)
  /\ \E acc \in {BuildScan(points, tf)} :
       /\ output' = [NewScan(stamp + 1, angle_min_, angle_max_, angle_increment_,
                             scan_time_, range_min_, range_max_)
                       EXCEPT !.ranges_sq = acc.ranges_sq]
       /\ out_of_bounds' = acc.out_of_bounds
       /\ \/ /\ sink' = Append(sink, stamp + 1)
             /\ cb_pc' = "published"
             /\ crashed' = FALSE
          \/ /\ acc.out_of_bounds
             /\ sink' = sink
             /\ cb_pc' = "idle"
             /\ crashed' = TRUE
  /\ UNCHANGED <<paramVars, lazyVars, stepVars>>

\* the listener answers within the timeout (lines 161-162)
CallbackResolved ==
  \E points \in Clouds, tf \in Transforms : Callback(points, tf, TRUE)

\* lookupTransform throws, line 165 logs, and the pass goes on with the
\* default-constructed cloud_to_ref of line 159, whose contents are
\* indeterminate: any transform
CallbackLookupFailed ==
  \E points \in Clouds, garbage \in Transforms : Callback(points, garbage, FALSE)

\* line 237: callback() returns and its locals are gone
CallbackReturn ==
  /\ cb_pc = "published"
  /\ cb_pc' = "idle"
  /\ cloud' = NoCloud
  /\ cloud_to_ref' = NoTransform
  /\ resolved' = FALSE
  /\ output' = NoScan
  /\ out_of_bounds' = FALSE
  /\ UNCHANGED <<paramVars, lazyVars, crashed, stamp, feed, broadcast, sink, stepVars>>

Next ==
  \/ \E config \in Configs : Reconfigure(config)
  \/ CallbackResolved
  \/ CallbackLookupFailed
  \/ CallbackReturn

Spec == Init /\ [][Next]_vars

(***************************************************************************)
(* The same two handlers when reconfigure() and callback() run on          *)
(* different threads.  Neither takes a lock, so every line of one may fall *)
(* between two lines of the other.                                         *)
(***************************************************************************)
\* clouds delivered in this setting
StepClouds == { c \in Clouds : \A i \in 1..Len(c) : c[i] \in {P3(1, 0, 1), P3(3, 0, 0)} }

\* reconfigure() is entered with a new configuration
ReconfigureEnter(c) ==
  /\ ~crashed
  /\ rc_pc = 0
  /\ reconfigures < MaxReconfigures
  /\ reconfigures' = reconfigures + 1
  /\ rc_config' = c
  /\ rc_pc' = 130
  /\ UNCHANGED <<paramVars, lazyVars, crashed, stamp, feed, cb_pc, localVars, broadcast,
                 sink, it, reads>>

\* one of the lines 130-139
ReconfigureLine ==
  /\ ~crashed
  /\ rc_pc # 0
  /\ min_height_' = IF rc_pc = 130 THEN rc_config.min_height ELSE min_height_
  /\ max_height_' = IF rc_pc = 131 THEN rc_config.max_height ELSE max_height_
  /\ angle_min_' = IF rc_pc = 132 THEN rc_config.angle_min ELSE angle_min_
  /\ angle_max_' = IF rc_pc = 133 THEN rc_config.angle_max ELSE angle_max_
  /\ angle_increment_' = IF rc_pc = 134 THEN rc_config.angle_increment ELSE angle_increment_
  /\ scan_time_' = IF rc_pc = 135 THEN rc_config.scan_time ELSE scan_time_
  /\ range_min_' = IF rc_pc = 136 THEN rc_config.range_min ELSE range_min_
  /\ range_max_' = IF rc_pc = 137 THEN rc_config.range_max ELSE range_max_
  /\ range_min_sq_' = IF rc_pc = 139 THEN range_min_ * range_min_ ELSE range_min_sq_
  /\ rc_pc' = CASE rc_pc = 137 -> 139 [] rc_pc = 139 -> 0 [] OTHER -> rc_pc + 1
  /\ UNCHANGED <<lazyVars, crashed, stamp, feed, cb_pc, localVars, broadcast, sink, it,
                 reads, rc_config, reconfigures>>

\* lines 144-156: the scan and its metadata
CallbackEnter(points) ==
  /\ ~crashed
  /\ cb_pc = "idle"
  /\ sub_ = "active"
  /\ stamp < MaxFrames
  /\ stamp' = stamp + 1
  /\ cloud' = [stamp |-> stamp + 1, frame_id |-> CloudFrameId, points |-> points]
  /\ output' = NewScan(stamp + 1, angle_min_, angle_max_, angle_increment_, scan_time_,
                       range_min_, range_max_)
  /\ cb_pc' = "lookup"
  /\ UNCHANGED <<paramVars, lazyVars, crashed, feed, cloud_to_ref, resolved, out_of_bounds,
                 broadcast, sink, stepVars>>

\* lines 159-195: the lookup, which may wait up to a second, and the
\* broadcast
CallbackLookup(tf, ok) ==
  /\ ~crashed
  /\ cb_pc = "lookup"
  /\ cloud_to_ref' = tf
  /\ resolved' = ok
  /\ feed' = Append(feed, ok)
  /\ broadcast' = RefToOutBroadcast(tf, min_height_, max_height_, cloud.stamp)
  /\ it' = 1
  /\ cb_pc' = "loop"
  /\ UNCHANGED <<paramVars, lazyVars, crashed, stamp, cloud, output, out_of_bounds, sink,
                 reads, rc_pc, rc_config, reconfigures>>

\* lines 197-234: one turn of the loop
CallbackPoint ==
  /\ ~crashed
  /\ cb_pc = "loop"
  /\ it <= Len(cloud.points)
  /\ \E acc \in {ProcessPoint([ranges_sq |-> output.ranges_sq,
                               out_of_bounds |-> out_of_bounds],
                              Apply(CloudToOut(cloud_to_ref), cloud.points[it]),
                              min_height_, max_height_, range_min_sq_,
                              output.angle_min, output.angle_max,
                              output.angle_increment)} :
       /\ output' = [output EXCEPT !.ranges_sq = acc.ranges_sq]
       /\ out_of_bounds' = acc.out_of_bounds
  /\ reads' = Append(reads, [min_height |-> min_height_, max_height |-> max_height_,
                             range_min_sq |-> range_min_sq_])
  /\ it' = it + 1
  /\ UNCHANGED <<paramVars, lazyVars, crashed, stamp, feed, cb_pc, cloud, cloud_to_ref,
                 resolved, broadcast, sink, rc_pc, rc_config, reconfigures>>

\* line 236, or the end of the process after an access outside ranges
CallbackPublish ==
  /\ ~crashed
  /\ cb_pc = "loop"
  /\ it > Len(cloud.points)
  /\ \/ /\ sink' = Append(sink, cloud.stamp)
        /\ cb_pc' = "published"
        /\ crashed' = FALSE
     \/ /\ out_of_bounds
        /\ sink' = sink
        /\ cb_pc' = "idle"
        /\ crashed' = TRUE
  /\ UNCHANGED <<paramVars, lazyVars, stamp, feed, localVars, broadcast, stepVars>>

\* line 237
CallbackLeave ==
  /\ cb_pc = "published"
  /\ cb_pc' = "idle"
  /\ cloud' = NoCloud
  /\ cloud_to_ref' = NoTransform
  /\ resolved' = FALSE
  /\ output' = NoScan
  /\ out_of_bounds' = FALSE
  /\ it' = 0
  /\ reads' = <<>>
  /\ UNCHANGED <<paramVars, lazyVars, crashed, stamp, feed, broadcast, sink, rc_pc, rc_config,
                 reconfigures>>

NextThreads ==
  \/ \E c \in Configs : ReconfigureEnter(c)
  \/ ReconfigureLine
  \/ \E points \in StepClouds : CallbackEnter(points)
  \/ \E tf \in Transforms, ok \in BOOLEAN : CallbackLookup(tf, ok)
  \/ CallbackPoint
  \/ CallbackPublish
  \/ CallbackLeave

SpecThreads == Init /\ [][NextThreads]_vars

(***************************************************************************)
(* Lazy subscription (lines 102-126).  Consumers of "scan" come and go;    *)
(* each arrival queues a connectCB() and each departure a disconnectCB(),  *)
(* which worker threads pick up in any order.                              *)
(***************************************************************************)
passiveVars == <<paramVars, crashed, stamp, feed, cb_pc, localVars, broadcast, sink, stepVars>>

\* a consumer subscribes to "scan"
ConsumerArrives ==
  /\ events < MaxEvents
  /\ numSubscribers < MaxConsumers
  /\ events' = events + 1
  /\ numSubscribers' = numSubscribers + 1
  /\ pendingConnect' = pendingConnect + 1
  /\ UNCHANGED <<sub_, subscriptions, pendingDisconnect, connect_mutex_, thr, passiveVars>>

\* a consumer of "scan" goes away
ConsumerDeparts ==
  /\ events < MaxEvents
  /\ numSubscribers > 0
  /\ events' = events + 1
  /\ numSubscribers' = numSubscribers - 1
  /\ pendingDisconnect' = pendingDisconnect + 1
  /\ UNCHANGED <<sub_, subscriptions, pendingConnect, connect_mutex_, thr, passiveVars>>

\* a worker picks up a queued connectCB() (line 112)
ConnectEnter(w) ==
  /\ thr[w] = "idle"
  /\ pendingConnect > 0
  /\ pendingConnect' = pendingConnect - 1
  /\ thr' = [thr EXCEPT ![w] = "connect_lock"]
  /\ UNCHANGED <<sub_, subscriptions, numSubscribers, pendingDisconnect, events,
                 connect_mutex_, passiveVars>>

\* a worker picks up a queued disconnectCB() (line 120)
DisconnectEnter(w) ==
  /\ thr[w] = "idle"
  /\ pendingDisconnect > 0
  /\ pendingDisconnect' = pendingDisconnect - 1
  /\ thr' = [thr EXCEPT ![w] = "disconnect_lock"]
  /\ UNCHANGED <<sub_, subscriptions, numSubscribers, pendingConnect, events,
                 connect_mutex_, passiveVars>>

\* boost::mutex::lock()
MutexAvailable(mutex) == mutex = "free"

\* boost::lock_guard (lines 113, 121)
Lock(w) ==
  /\ thr[w] \in {"connect_lock", "disconnect_lock"}
  /\ MutexAvailable(connect_mutex_)
  /\ connect_mutex_' = w
  /\ thr' = [thr EXCEPT ![w] = IF thr[w] = "connect_lock" THEN "connect_test"
                                ELSE "disconnect_test"]
  /\ UNCHANGED <<sub_, subscriptions, numSubscribers, pendingConnect, pendingDisconnect,
                 events, passiveVars>>

\* a connectCB() that subscribes whatever the number of consumers
ConnectCondition_Always(n) == TRUE
\* line 114
ConnectCondition(n) == n > 0
\* line 122
DisconnectCondition(n) == n = 0

\* lines 114 and 122: the test of getNumSubscribers()
Test(w) ==
  /\ thr[w] \in {"connect_test", "disconnect_test"}
  /\ thr' = [thr EXCEPT ![w] =
               CASE thr[w] = "connect_test" /\ ConnectCondition(numSubscribers)
                      -> "connect_subscribe"
                 [] thr[w] = "disconnect_test" /\ DisconnectCondition(numSubscribers)
                      -> "disconnect_shutdown"
                 [] OTHER -> "unlock"]
  /\ UNCHANGED <<sub_, subscriptions, numSubscribers, pendingConnect, pendingDisconnect,
                 events, connect_mutex_, passiveVars>>

\* line 116, right-hand side: nh_.subscribe() makes a new subscription
ConnectSubscribe(w) ==
  /\ thr[w] = "connect_subscribe"
  /\ subscriptions' = subscriptions + 1
  /\ thr' = [thr EXCEPT ![w] = "connect_assign"]
  /\ UNCHANGED <<sub_, numSubscribers, pendingConnect, pendingDisconnect, events,
                 connect_mutex_, passiveVars>>

\* line 116, the assignment: sub_ takes the new subscription and the one
\* it held, if any, is released
ConnectAssign(w) ==
  /\ thr[w] = "connect_assign"
  /\ subscriptions' = IF sub_ = "active" THEN subscriptions - 1 ELSE subscriptions
  /\ sub_' = "active"
  /\ thr' = [thr EXCEPT ![w] = "unlock"]
  /\ UNCHANGED <<numSubscribers, pendingConnect, pendingDisconnect, events,
                 connect_mutex_, passiveVars>>

\* line 124: sub_.shutdown()
DisconnectShutdown(w) ==
  /\ thr[w] = "disconnect_shutdown"
  /\ subscriptions' = IF sub_ = "active" THEN subscriptions - 1 ELSE subscriptions
  /\ sub_' = "shutdown"
  /\ thr' = [thr EXCEPT ![w] = "unlock"]
  /\ UNCHANGED <<numSubscribers, pendingConnect, pendingDisconnect, events,
                 connect_mutex_, passiveVars>>

\* lines 118 and 126: the lock_guard goes out of scope
Unlock(w) ==
  /\ thr[w] = "unlock"
  /\ connect_mutex_' = "free"
  /\ thr' = [thr EXCEPT ![w] = "idle"]
  /\ UNCHANGED <<sub_, subscriptions, numSubscribers, pendingConnect, pendingDisconnect,
                 events, passiveVars>>

NextLazy ==
  \/ ConsumerArrives
  \/ ConsumerDeparts
  \/ \E w \in Workers : ConnectEnter(w)
  \/ \E w \in Workers : DisconnectEnter(w)
  \/ \E w \in Workers : Lock(w)
  \/ \E w \in Workers : Test(w)
  \/ \E w \in Workers : ConnectSubscribe(w)
  \/ \E w \in Workers : ConnectAssign(w)
  \/ \E w \in Workers : DisconnectShutdown(w)
  \/ \E w \in Workers : Unlock(w)

\* the nodelet as onInit() leaves it: nothing is subscribed yet
InitAdvertised ==
  /\ InitParams
  /\ InitPass
  /\ InitLazy
  /\ crashed = FALSE

SpecLazy == InitAdvertised /\ [][NextLazy]_vars

(***************************************************************************)
(* Vocabulary of the properties.  These definitions restate the            *)
(* specification's words on the frame and the scan of the pass whose       *)
(* locals are alive; they do not use the filters of the code.              *)
(***************************************************************************)
\* a pass has run and its locals are alive
PassRan == cloud.stamp > 0
\* the pass has handed its scan to the publisher
Published == cb_pc = "published"

\* the points of the frame in the output frame
Seen == [i \in 1..Len(cloud.points) |-> Apply(CloudToOut(cloud_to_ref), cloud.points[i])]

HasNaN(p) == p[1].nan \/ p[2].nan \/ p[3].nan
OutsideBand(p) == ~HasNaN(p) /\ ~(min_height_ <= p[3].v /\ p[3].v <= max_height_)
PlanarSq(p) == p[1].v * p[1].v + p[2].v * p[2].v
Bearing(p) == Atan2(p[2].v, p[1].v)
\* passes the NaN, height, minimum-range and angle filters
Accepted(p) ==
  /\ ~HasNaN(p)
  /\ min_height_ <= p[3].v /\ p[3].v <= max_height_
  /\ PlanarSq(p) >= output.range_min * output.range_min
  /\ output.angle_min <= Bearing(p) /\ Bearing(p) <= output.angle_max
\* floor((angle - angle_min) / angle_increment)
BinOf(p) == (Bearing(p) - output.angle_min) \div output.angle_increment
\* ceil((angle_max - angle_min) / angle_increment)
BinCount ==
  LET span == output.angle_max - output.angle_min
  IN  CHOOSE n \in 0..(span + 1) :
        n * output.angle_increment >= span /\ (n - 1) * output.angle_increment < span
\* range_max + 1.0 of the scan's metadata, squared
SentinelSq == (output.range_max + 1) * (output.range_max + 1)
\* the ScanParameters invariant on the scan's metadata
MetadataValid ==
  /\ output.angle_increment > 0
  /\ output.angle_max > output.angle_min
  /\ output.range_max > output.range_min
  /\ output.range_min >= 0
\* the accepted points of the frame that fall into bin b (counted from 0)
InBin(b) == { i \in 1..Len(Seen) : Accepted(Seen[i]) /\ BinOf(Seen[i]) = b }
MinOf(S) == CHOOSE m \in S : \A n \in S : m <= n
Bins == 0..(Len(output.ranges_sq) - 1)

(***************************************************************************)
(* Properties                                                              *)
(***************************************************************************)
\* C1: a frame whose transform lookup failed produces no scan: its stamp
\* never reaches the sink.
C1_FailedLookupPublishesNothing ==
  (PassRan /\ ~resolved) => \A k \in 1..Len(sink) : sink[k] # cloud.stamp

\* C2: under a valid configuration every point that passes the four filters
\* has a bin index in [0, bin_count), and no access to ranges falls outside
\* the array.
C2_IndexInsideArray ==
  (PassRan /\ MetadataValid) =>
    /\ \A i \in 1..Len(Seen) :
         Accepted(Seen[i]) => (0 <= BinOf(Seen[i]) /\ BinOf(Seen[i]) < BinCount)
    /\ ~out_of_bounds

\* C3 as stated: a bin that two or more accepted points map to holds the
\* smallest of their ranges.
C3_BinHoldsMinimumOfPoints ==
  Published =>
    \A b \in Bins :
      Cardinality(InBin(b)) >= 2 =>
        output.ranges_sq[b + 1] = MinOf({ PlanarSq(Seen[i]) : i \in InBin(b) })

\* C3 as amended: a bin that two or more accepted points map to holds the
\* smallest of their ranges if that is below range_max + 1.0, and
\* range_max + 1.0 otherwise, whatever the order of the points.
C3_BinHoldsMinimumBelowSentinel ==
  Published =>
    \A b \in Bins :
      Cardinality(InBin(b)) >= 2 =>
        output.ranges_sq[b + 1] =
          MinOf({ PlanarSq(Seen[i]) : i \in InBin(b) } \cup {SentinelSq})

\* the later of two accepted points of one bin is the nearer, and the bin
\* holds its range
C3_Witness ==
  /\ Published
  /\ \E b \in Bins : \E i, j \in InBin(b) :
       /\ i < j
       /\ PlanarSq(Seen[j]) < PlanarSq(Seen[i])
       /\ PlanarSq(Seen[i]) < SentinelSq
       /\ output.ranges_sq[b + 1] = PlanarSq(Seen[j])

\* C4: in a published scan every bin no accepted point was assigned to holds
\* range_max + 1.0 of the scan's metadata, and not zero.
C4_EmptyBinsHoldSentinel ==
  Published =>
    \A b \in Bins :
      InBin(b) = {} =>
        /\ output.ranges_sq[b + 1] = (output.range_max + 1) * (output.range_max + 1)
        /\ output.ranges_sq[b + 1] # 0

\* a published scan with an empty bin beside a bin that holds a return
C4_Witness ==
  /\ Published
  /\ \E b, c \in Bins :
       /\ InBin(b) = {}
       /\ InBin(c) # {}
       /\ output.ranges_sq[c + 1] < SentinelSq

\* the frame without the points that have a NaN coordinate or a height
\* outside [min_height, max_height]
Irrelevant(p) == HasNaN(p) \/ OutsideBand(p)
RelevantPoints ==
  SelectSeq(cloud.points, LAMBDA q : ~Irrelevant(Apply(CloudToOut(cloud_to_ref), q)))
\* the range array and the out-of-bounds flag after the first k points
AfterPoints(k) == BuildScan(SubSeq(cloud.points, 1, k), cloud_to_ref)

\* C5: the scan of a frame is the scan of the same frame with its NaN and
\* out-of-band points removed, and the loop's turn on such a point leaves
\* the range array untouched and accesses nothing outside it.
C5_IrrelevantPointsChangeNothing ==
  PassRan =>
    /\ output.ranges_sq = BuildScan(RelevantPoints, cloud_to_ref).ranges_sq
    /\ \A k \in 1..Len(cloud.points) :
         Irrelevant(Seen[k]) => AfterPoints(k) = AfterPoints(k - 1)

\* a published scan holds a return although its frame also carried a point
\* outside the height band
C5_Witness ==
  /\ Published
  /\ \E i, j \in 1..Len(Seen) : i # j /\ OutsideBand(Seen[i]) /\ Accepted(Seen[j])
  /\ \E b \in Bins : output.ranges_sq[b + 1] < SentinelSq

\* a published scan of a frame that carried a NaN point and a return
C5_WitnessNaN ==
  /\ Published
  /\ \E i, j \in 1..Len(Seen) : HasNaN(Seen[i]) /\ Accepted(Seen[j])
  /\ \E b \in Bins : output.ranges_sq[b + 1] < SentinelSq

\* C8: whatever reconfigurations were made, the configuration in force
\* satisfies angle_increment > 0, angle_max > angle_min and
\* range_max > range_min >= 0 (an update that violates them is rejected).
C8_ConfigurationStaysValid ==
  /\ angle_increment_ > 0
  /\ angle_max_ > angle_min_
  /\ range_max_ > range_min_
  /\ range_min_ >= 0

\* the frames that were processed successfully: the transform was resolved
\* and the pass ran to its end
Processed ==
  { k \in 1..Len(feed) : feed[k] /\ ~(crashed /\ k = Len(feed)) }
RECURSIVE Ascending(_, _)
Ascending(S, from) ==
  IF \A k \in S : k < from THEN <<>>
  ELSE LET m == MinOf({ k \in S : k >= from }) IN <<m>> \o Ascending(S, m + 1)

\* C9: the sink has received exactly one scan for each successfully
\* processed frame, in the order of arrival, each with the stamp of its
\* frame, and nothing else.
C9_OneScanPerProcessedFrame ==
  /\ sink = Ascending(Processed, 1)
  /\ Published => output.stamp = cloud.stamp

\* C10: every bin of a published scan holds range_max + 1.0 or a range r
\* with range_min <= r < range_max + 1.0; an accepted point nearer than
\* range_max + 1.0 is written even when it lies beyond range_max, and an
\* accepted point at range_max + 1.0 or farther changes nothing.
C10_BinValuesBounded ==
  Published =>
    /\ \A b \in Bins :
         \/ output.ranges_sq[b + 1] = SentinelSq
         \/ /\ output.range_min * output.range_min <= output.ranges_sq[b + 1]
            /\ output.ranges_sq[b + 1] < SentinelSq
    /\ \A i \in 1..Len(Seen) :
         (Accepted(Seen[i]) /\ BinOf(Seen[i]) \in Bins) =>
           IF PlanarSq(Seen[i]) < SentinelSq
             THEN output.ranges_sq[BinOf(Seen[i]) + 1] <= PlanarSq(Seen[i])
             ELSE AfterPoints(i).ranges_sq = AfterPoints(i - 1).ranges_sq

\* a published scan holds a range beyond range_max, and its frame carried an
\* accepted point beyond range_max + 1.0
C10_Witness ==
  /\ Published
  /\ \E b \in Bins :
       /\ output.range_max * output.range_max < output.ranges_sq[b + 1]
       /\ output.ranges_sq[b + 1] < SentinelSq
  /\ \E i \in 1..Len(Seen) :
       Accepted(Seen[i]) /\ BinOf(Seen[i]) \in Bins /\ PlanarSq(Seen[i]) > SentinelSq

Quiescent ==
  /\ pendingConnect = 0
  /\ pendingDisconnect = 0
  /\ \A w \in Workers : thr[w] = "idle"
InCriticalSection(w) ==
  thr[w] \in {"connect_test", "disconnect_test", "connect_subscribe", "connect_assign",
              "disconnect_shutdown", "unlock"}

\* C7: once every connect and disconnect notification has been handled,
\* the node is subscribed to "cloud" exactly if "scan" has a consumer; at
\* most one worker is inside connectCB() or disconnectCB() past the lock;
\* and outside them the node holds one subscription if sub_ is active and
\* none otherwise.
C7_SubscribedIffConsumers ==
  /\ Quiescent => (sub_ = "active" <=> numSubscribers > 0)
  /\ \A v, w \in Workers : (InCriticalSection(v) /\ InCriticalSection(w)) => v = w
  /\ connect_mutex_ = "free" =>
       subscriptions = IF sub_ = "active" THEN 1 ELSE 0

\* all handled, and the subscription is up again for a second consumer
\* after the first one left
C7_Witness ==
  /\ Quiescent
  /\ events >= 3
  /\ numSubscribers = 1
  /\ sub_ = "active"
  /\ subscriptions = 1

\* all handled, the last consumer gone and the subscription shut down
C7_WitnessShutdown ==
  /\ Quiescent
  /\ events >= 2
  /\ numSubscribers = 0
  /\ sub_ = "shutdown"
  /\ subscriptions = 0

====
